---------------------------- MODULE Spec2Model ----------------------------
(***************************************************************************)
(* A model of the weekly search of the 6G articles application            *)
(* (backend/searcher.py, backend/scheduler.py): the fan-out to the source  *)
(* adapters, deduplication, relevance scoring, the backup write, the       *)
(* recency selection with its score-ranked fallback, link enrichment and   *)
(* the hand-over to run_weekly_job.                                        *)
(*                                                                         *)
(* Text is a sequence of one-character strings.  A Python list of dicts is *)
(* a sequence of records; the lists unique, recent and older hold          *)
(* references (indices into all_articles), because the code shares the     *)
(* dict objects between those lists and mutates them in place.  An         *)
(* optional value is <<>> (None, or a key not yet set) or <<v>>.           *)
(***************************************************************************)
EXTENDS Integers, Sequences, FiniteSets, TLC

VARIABLES
    pc,            \* position of the run
    G6_KEYWORDS,   \* searcher.py module-level keyword list
    ELSEVIER_API_KEY, \* searcher.py module-level key, "" when not configured
    all_articles,  \* weekly_search: the aggregated list (the dict objects)
    kw,            \* weekly_search: index of the keyword round
    ad,            \* weekly_search: index of the next adapter call of the round
    attempt,       \* tenacity: number of the current attempt of the call
    call_log,      \* the adapter calls made so far and how their upstream answered
    last_call,     \* the last call that returned: attempts, output, whether 429 ended it
    now,           \* weekly_search: datetime.now(), as a day number
    di,            \* weekly_search: position of the deduplication loop
    seen,          \* weekly_search: the set of (title, link) keys
    unique,        \* weekly_search: the unique list (references)
    backup,        \* the backup file of the week
    backup_path,   \* weekly_search: backup_path, <<>> before it is assigned
    backup_outcome,\* how the file system answered the backup write
    recent,        \* weekly_search: the selected list (references)
    older,         \* weekly_search: the sorted older pool (references)
    ei,            \* unpaywall_enrich: position of its loop
    enriched,      \* unpaywall_enrich: the list it builds (references)
    lookups,       \* number of Unpaywall requests sent
    last_lookup,   \* how the last Unpaywall request came out, and for which candidate
    returned,      \* <<>> or <<the list weekly_search returned>>
    raised,        \* "" or the exception that left run_weekly_job
    db,            \* the committed rows of table articles
    pending,       \* rows added to the session and not yet committed
    si,            \* run_weekly_job: position of its loop
    saved_count,   \* run_weekly_job: saved_count
    call_arg,      \* the arguments of a function looked at on its own
    call_result,   \* what that function returned, <<>> before the call
    writes,        \* the backup writes of the runs so far: run day and path
    runs           \* the executions of run_weekly_job, one per thread

aggVars == <<kw, ad, attempt, call_log, last_call>>
searchVars == <<now, di, seen, unique, backup, backup_path, backup_outcome,
                recent, older, ei, enriched, lookups, last_lookup, returned>>
jobVars == <<raised, db, pending, si, saved_count>>
config == <<G6_KEYWORDS, ELSEVIER_API_KEY>>
harness == <<call_arg, call_result, writes, runs>>
vars == <<pc, config, all_articles, aggVars, searchVars, jobVars, harness>>

\* the threads that call run_weekly_job: the scheduler's and the request's
Triggers == {"cron", "post"}
IdleRun == [pc |-> "idle", articles |-> <<>>, si |-> 1, pending |-> <<>>,
            outcome |-> ""]
NoRuns == [r \in Triggers |-> IdleRun]

(***************************************************************************)
(* Bounds of the model.                                                    *)
(***************************************************************************)
MaxTitleLen == 3
MaxTextLen == 2
MaxAgg == 3
MaxItems == 2
MaxRuns == 2
MaxPoints == 6
\* the quota of weekly_search, 50 in the code (searcher.py 384-390), scaled down
Quota == 2
\* timedelta(days=365)
Window == 365

(***************************************************************************)
(* Text.                                                                   *)
(***************************************************************************)
Chars == {"a", "b", "A", " "}

\* str.lower(), character by character
LowerChar(c) ==
    IF c = "A" THEN "a" ELSE IF c = "B" THEN "b" ELSE IF c = "C" THEN "c" ELSE c

RECURSIVE Lower(_)
Lower(s) == IF s = <<>> THEN <<>> ELSE <<LowerChar(Head(s))>> \o Lower(Tail(s))

\* Python's `w in text` on strings
IsSubstring(w, text) ==
    \E i \in 0..(Len(text) - Len(w)) : SubSeq(text, i + 1, i + Len(w)) = w

\* str.split() without arguments: runs of non-blank characters
RECURSIVE SplitAcc(_, _, _, _)
SplitAcc(s, i, cur, out) ==
    IF i > Len(s)
    THEN IF cur = <<>> THEN out ELSE Append(out, cur)
    ELSE IF s[i] = " "
         THEN SplitAcc(s, i + 1, <<>>, IF cur = <<>> THEN out ELSE Append(out, cur))
         ELSE SplitAcc(s, i + 1, Append(cur, s[i]), out)

Split(s) == SplitAcc(s, 1, <<>>, <<>>)

RECURSIVE TextsUpTo(_)
TextsUpTo(n) ==
    IF n = 0 THEN {<<>>}
    ELSE LET shorter == TextsUpTo(n - 1)
         IN  shorter \cup {Append(t, c) : t \in {u \in shorter : Len(u) = n - 1}, c \in Chars}

(***************************************************************************)
(* calculate_relevance (searcher.py 314-333).                              *)
(***************************************************************************)
\* the inner loop over the words of one keyword, without its `break`
RECURSIVE WordLoopNoBreak(_, _, _)
WordLoopNoBreak(kw_words, j, text) ==
    IF j > Len(kw_words) THEN 0
    ELSE (IF IsSubstring(kw_words[j], text) THEN 1 ELSE 0)
         + WordLoopNoBreak(kw_words, j + 1, text)

\* for w in kw_words: if w in text: score += 1; break
RECURSIVE WordLoop(_, _, _)
WordLoop(kw_words, j, text) ==
    IF j > Len(kw_words) THEN 0
    ELSE IF IsSubstring(kw_words[j], text) THEN 1
    ELSE WordLoop(kw_words, j + 1, text)

\* first loop over the keywords
RECURSIVE KeywordLoop(_, _, _)
KeywordLoop(keywords, i, text) ==
    IF i > Len(keywords) THEN 0
    ELSE WordLoop(Split(Lower(keywords[i])), 1, text)
         + KeywordLoop(keywords, i + 1, text)

\* second loop over the keywords: the title boost
RECURSIVE TitleLoop(_, _, _)
TitleLoop(keywords, i, title) ==
    IF i > Len(keywords) THEN 0
    ELSE (IF IsSubstring(Lower(keywords[i]), title) THEN 3 ELSE 0)
         + TitleLoop(keywords, i + 1, title)

\* the scoring of an article against a given keyword list
ScoreWith(article, keywords) ==
    LET title == Lower(article.title)
        full_text == Lower(article.full_text)
        text == title \o <<" ">> \o full_text
    IN  KeywordLoop(keywords, 1, text) + TitleLoop(keywords, 1, title)

\* a scorer in which the title boost replaces the word point (if / elif)
RECURSIVE ElifLoop(_, _, _, _)
ElifLoop(keywords, i, title, text) ==
    IF i > Len(keywords) THEN 0
    ELSE (IF IsSubstring(Lower(keywords[i]), title) THEN 3
          ELSE WordLoop(Split(Lower(keywords[i])), 1, text))
         + ElifLoop(keywords, i + 1, title, text)

calculate_relevance_elif(article) ==
    LET title == Lower(article.title)
        full_text == Lower(article.full_text)
    IN  ElifLoop(G6_KEYWORDS, 1, title, title \o <<" ">> \o full_text)

calculate_relevance(article) == ScoreWith(article, G6_KEYWORDS)


(***************************************************************************)
(* Candidates.                                                             *)
(***************************************************************************)
\* the dict an adapter appends: no relevance_score key yet
Cand(title, authors, publish_date, link, full_text) ==
    [title |-> title, authors |-> authors, publish_date |-> publish_date,
     link |-> link, full_text |-> full_text, relevance_score |-> <<>>]

\* `'arxiv' in a['link']`
ContainsArxiv(link) == link \in {"http://arxiv.org/abs/1", "http://arxiv.org/abs/4"}

\* the days a run may take place on
RunDays == {20000}

\* The candidates the aggregated list is drawn from: dated inside the
\* window, on its first day, outside it, undated; two with equal
\* (title, link) and different other fields; equal links under different
\* titles; scores 0, 1, 4 and 5 under PipelineKeywords.
Pool(today) ==
    { Cand(<<"a", " ", "b">>, "Au1", <<today - 1>>, "http://arxiv.org/abs/1", <<>>),
      Cand(<<"a", " ", "b">>, "Au2", <<today - Window - 1>>, "http://arxiv.org/abs/1", <<"c">>),
      Cand(<<"b">>, "", <<today - Window - 1>>, "doi2", <<>>),
      Cand(<<"x">>, "Au1", <<>>, "doi3", <<"c">>),
      Cand(<<"x">>, "Au1", <<today - Window>>, "doi2", <<>>),
      Cand(<<"b">>, "Au2", <<today - Window - 35>>, "http://arxiv.org/abs/4", <<>>),
      Cand(<<"x">>, "", <<today - Window - 1>>, "http://arxiv.org/abs/1", <<>>),
      Cand(<<"C">>, "Au2", <<today>>, "doi3", <<>>) }

PipelineKeywords == << <<"A", " ", "b">>, <<"c">> >>

RECURSIVE SeqsUpTo(_, _)
SeqsUpTo(S, n) ==
    IF n = 0 THEN {<<>>}
    ELSE LET shorter == SeqsUpTo(S, n - 1)
         IN  shorter \cup {Append(t, c) : t \in {u \in shorter : Len(u) = n - 1}, c \in S}

(***************************************************************************)
(* weekly_search: deduplication (searcher.py 353-360).                     *)
(***************************************************************************)
\* a key that leaves the link out
KeyTitleOnly(a) == <<a.title>>

\* key = (a.get('title', ''), a.get('link', ''))
Key(a) == <<a.title, a.link>>

\* a pass that scores every candidate it looks at, kept or not
DedupStepScoreAll ==
    /\ pc = "dedup"
    /\ di <= Len(all_articles)
    /\ LET a == all_articles[di]
           key == Key(a)
       IN  /\ all_articles' = [all_articles EXCEPT
                  ![di].relevance_score = <<calculate_relevance(a)>>]
           /\ IF key \notin seen
              THEN /\ seen' = seen \cup {key}
                   /\ unique' = Append(unique, di)
              ELSE UNCHANGED <<seen, unique>>
    /\ di' = di + 1
    /\ UNCHANGED <<pc, config, harness, aggVars, now, backup_path, last_lookup,
                   backup, backup_outcome, recent, older, ei, enriched, lookups,
                   returned, jobVars>>

\* a pass that remembers the key of the last candidate kept only
DedupStepAdjacent ==
    /\ pc = "dedup"
    /\ di <= Len(all_articles)
    /\ LET a == all_articles[di]
           key == Key(a)
       IN  IF key \notin seen
           THEN /\ seen' = {key}
                /\ all_articles' = [all_articles EXCEPT
                       ![di].relevance_score = <<calculate_relevance(a)>>]
                /\ unique' = Append(unique, di)
           ELSE UNCHANGED <<seen, all_articles, unique>>
    /\ di' = di + 1
    /\ UNCHANGED <<pc, config, harness, aggVars, now, backup_path, last_lookup,
                   backup, backup_outcome, recent, older, ei, enriched, lookups,
                   returned, jobVars>>

\* the loop of lines 353-360 run on a list: the unique list it builds
RECURSIVE DedupLoop(_, _, _)
DedupLoop(articles, keys, out) ==
    IF articles = <<>> THEN out
    ELSE LET a == Head(articles)
         IN  IF Key(a) \notin keys
             THEN DedupLoop(Tail(articles), keys \cup {Key(a)},
                            Append(out, [a EXCEPT !.relevance_score =
                                            <<calculate_relevance(a)>>]))
             ELSE DedupLoop(Tail(articles), keys, out)

DedupPass(articles) == DedupLoop(articles, {}, <<>>)


\* one iteration of `for a in all_articles`
DedupStep ==
    /\ pc = "dedup"
    /\ di <= Len(all_articles)
    /\ LET a == all_articles[di]
           key == Key(a)
       IN  IF key \notin seen
           THEN /\ seen' = seen \cup {key}
                /\ all_articles' = [all_articles EXCEPT
                       ![di].relevance_score = <<calculate_relevance(a)>>]
                /\ unique' = Append(unique, di)
           ELSE UNCHANGED <<seen, all_articles, unique>>
    /\ di' = di + 1
    /\ UNCHANGED <<pc, config, harness, aggVars, now, backup_path, last_lookup, backup, backup_outcome, recent,
                   older, ei, enriched, lookups, returned, jobVars>>

DedupDone ==
    /\ pc = "dedup"
    /\ di > Len(all_articles)
    /\ pc' = "backup"
    /\ UNCHANGED <<config, harness, all_articles, aggVars, searchVars, jobVars>>

(***************************************************************************)
(* weekly_search: the backup (searcher.py 365-374).                        *)
(***************************************************************************)
\* str(date), json.dump's default=str
DateStr(d) == [iso |-> d]

\* one dict as json.dump writes it
JsonRecord(a) ==
    [title |-> a.title, authors |-> a.authors,
     publish_date |-> IF a.publish_date = <<>> THEN <<>>
                      ELSE <<DateStr(a.publish_date[1])>>,
     link |-> a.link, full_text |-> a.full_text,
     relevance_score |-> a.relevance_score[1]]

\* a dump cut to the quota
JsonDumpQuota(refs) ==
    [k \in 1..(IF Quota < Len(refs) THEN Quota ELSE Len(refs)) |->
        JsonRecord(all_articles[refs[k]])]

\* a dump of the candidates dated inside the window only
JsonDumpRecentOnly(refs) ==
    LET kept == SelectSeq(refs, LAMBDA r :
                    /\ all_articles[r].publish_date # <<>>
                    /\ all_articles[r].publish_date[1] >= now - Window)
    IN  [k \in 1..Len(kept) |-> JsonRecord(all_articles[kept[k]])]

\* json.dump(unique, f)
JsonDump(refs) == [k \in 1..Len(refs) |-> JsonRecord(all_articles[refs[k]])]

BackupOutcomes == {"ok", "mkdir_error", "open_error", "write_error"}

\* the calendar of datetime; day numbers count from 1970-01-01, a Thursday
IsLeap(y) == (y % 4 = 0 /\ y % 100 # 0) \/ y % 400 = 0
DaysIn(y) == IF IsLeap(y) THEN 366 ELSE 365

RECURSIVE YearFrom(_, _)
YearFrom(n, y) == IF n < DaysIn(y) THEN y ELSE YearFrom(n - DaysIn(y), y + 1)

\* now.year
Year(d) == YearFrom(d, 1970)

\* the day number of January 1st of year y
RECURSIVE Jan1(_)
Jan1(y) == IF y = 1970 THEN 0 ELSE Jan1(y - 1) + DaysIn(y - 1)

\* now.isocalendar()[2]: 1 is Monday, 7 is Sunday
IsoWeekday(d) == ((d + 3) % 7) + 1

\* now.isocalendar()[0]: the year of the Thursday of d's week
IsoYear(d) == Year(d - IsoWeekday(d) + 4)

\* now.isocalendar()[1]
IsoWeek(d) ==
    LET thursday == d - IsoWeekday(d) + 4
    IN  (thursday - Jan1(Year(thursday))) \div 7 + 1

Digit(n) == <<"0", "1", "2", "3", "4", "5", "6", "7", "8", "9">>[n + 1]

\* f"{n}"
RECURSIVE FormatInt(_)
FormatInt(n) ==
    IF n < 10 THEN <<Digit(n)>> ELSE FormatInt(n \div 10) \o <<Digit(n % 10)>>

\* f"{n:02d}"
Pad2(n) == IF n < 10 THEN <<"0">> \o FormatInt(n) ELSE FormatInt(n)

\* backup_dir / f"allresult_week_{now.year}-{week_num:02d}.json", for now = d
BackupPath(d) ==
    <<"backend/backup/allresult_week_">> \o FormatInt(Year(d)) \o <<"-">>
        \o Pad2(IsoWeek(d)) \o <<".json">>

\* a backup write whose failure is logged and not raised
BackupWriteSwallowed ==
    /\ pc = "backup"
    /\ \E outcome \in BackupOutcomes :
        /\ backup_outcome' = outcome
        /\ backup' = IF outcome = "ok"
                     THEN [state |-> "complete", content |-> JsonDump(unique)]
                     ELSE backup
        /\ backup_path' = IF outcome = "mkdir_error" THEN backup_path
                          ELSE <<BackupPath(now)>>
        /\ pc' = "select"
        /\ UNCHANGED raised
    /\ UNCHANGED <<config, harness, all_articles, aggVars, now, last_lookup, di,
                   seen, unique, recent, older, ei, enriched, lookups, returned,
                   db, pending, si, saved_count>>

\* mkdir, open(backup_path, "w"), json.dump: nothing catches an OSError, which
\* leaves weekly_search and run_weekly_job; open(.., "w") truncates the file
\* and a failing json.dump leaves what it had written
BackupWrite ==
    /\ pc = "backup"
    /\ \E outcome \in BackupOutcomes :
        /\ backup_outcome' = outcome
        /\ \/ /\ outcome = "ok"
              /\ backup' = [state |-> "complete", content |-> JsonDump(unique)]
              /\ pc' = "select"
              /\ UNCHANGED raised
           \/ /\ outcome \in {"mkdir_error", "open_error"}
              /\ UNCHANGED backup
              /\ pc' = "job_raised"
              /\ raised' = "OSError"
           \/ /\ outcome = "write_error"
              /\ \E n \in 0..(IF unique = <<>> THEN 0 ELSE Len(unique) - 1) :
                    backup' = [state |-> "partial",
                               content |-> SubSeq(JsonDump(unique), 1, n)]
              /\ pc' = "job_raised"
              /\ raised' = "OSError"
        /\ backup_path' = IF outcome = "mkdir_error" THEN backup_path
                          ELSE <<BackupPath(now)>>
    /\ UNCHANGED <<config, harness, all_articles, aggVars, now, last_lookup, di,
                   seen, unique, recent, older, ei, enriched, lookups, returned,
                   db, pending, si, saved_count>>


(***************************************************************************)
(* weekly_search: the recency selection (searcher.py 379-390).             *)
(***************************************************************************)
\* recent_cutoff.date()
recent_cutoff == now - Window

\* a.get('publish_date') and a['publish_date'] >= recent_cutoff.date()
IsRecent(a) == a.publish_date # <<>> /\ a.publish_date[1] >= recent_cutoff

\* a filter that lets the undated candidates into the older pool
IsOlderOrUndated(a) == a.publish_date = <<>> \/ a.publish_date[1] < recent_cutoff

\* a.get('publish_date') and a['publish_date'] < recent_cutoff.date()
IsOlder(a) == a.publish_date # <<>> /\ a.publish_date[1] < recent_cutoff

RECURSIVE RecentOf(_)
RecentOf(refs) ==
    IF refs = <<>> THEN <<>>
    ELSE (IF IsRecent(all_articles[Head(refs)]) THEN <<Head(refs)>> ELSE <<>>)
         \o RecentOf(Tail(refs))

RECURSIVE OlderOf(_)
OlderOf(refs) ==
    IF refs = <<>> THEN <<>>
    ELSE (IF IsOlder(all_articles[Head(refs)]) THEN <<Head(refs)>> ELSE <<>>)
         \o OlderOf(Tail(refs))

ScoreOf(ref) == all_articles[ref].relevance_score[1]

\* a descending insertion that puts r before the entries of equal score
RECURSIVE InsertBeforeEqual(_, _)
InsertBeforeEqual(sorted, r) ==
    IF sorted = <<>> THEN <<r>>
    ELSE IF ScoreOf(Head(sorted)) > ScoreOf(r)
         THEN <<Head(sorted)>> \o InsertBeforeEqual(Tail(sorted), r)
         ELSE <<r>> \o sorted

\* r goes after every entry whose score is at least its own (a stable sort)
RECURSIVE InsertDesc(_, _)
InsertDesc(sorted, r) ==
    IF sorted = <<>> THEN <<r>>
    ELSE IF ScoreOf(Head(sorted)) >= ScoreOf(r)
         THEN <<Head(sorted)>> \o InsertDesc(Tail(sorted), r)
         ELSE <<r>> \o sorted

\* older.sort(key=lambda x: x['relevance_score'], reverse=True)
RECURSIVE SortDesc(_, _)
SortDesc(refs, sorted) ==
    IF refs = <<>> THEN sorted
    ELSE SortDesc(Tail(refs), InsertDesc(sorted, Head(refs)))

\* s[:n]
Take(s, n) == SubSeq(s, 1, IF n < Len(s) THEN n ELSE Len(s))

\* a selection that fills up from the older pool whatever the recent count
SelectAlwaysFill ==
    /\ pc = "select"
    /\ older' = SortDesc(OlderOf(unique), <<>>)
    /\ recent' = RecentOf(unique) \o Take(older', Quota)
    /\ pc' = "enrich"
    /\ UNCHANGED <<config, harness, all_articles, aggVars, now, backup_path, last_lookup, di, seen, unique, backup,
                   backup_outcome, ei, enriched, lookups, returned, jobVars>>

\* a selection that orders the recent candidates by score before the cut
SelectByScore ==
    /\ pc = "select"
    /\ LET rec == SortDesc(RecentOf(unique), <<>>)
       IN  IF Len(rec) < Quota
           THEN /\ older' = SortDesc(OlderOf(unique), <<>>)
                /\ recent' = rec \o Take(older', Quota - Len(rec))
           ELSE /\ recent' = Take(rec, Quota)
                /\ UNCHANGED older
    /\ pc' = "enrich"
    /\ UNCHANGED <<config, harness, all_articles, aggVars, now, backup_path,
                   last_lookup, di, seen, unique, backup, backup_outcome, ei,
                   enriched, lookups, returned, jobVars>>

Select ==
    /\ pc = "select"
    /\ LET rec == RecentOf(unique)
       IN  IF Len(rec) < Quota
           THEN /\ older' = SortDesc(OlderOf(unique), <<>>)
                /\ recent' = rec \o Take(older', Quota - Len(rec))
           ELSE /\ recent' = Take(rec, Quota)
                /\ UNCHANGED older
    /\ pc' = "enrich"
    /\ UNCHANGED <<config, harness, all_articles, aggVars, now, backup_path, last_lookup, di, seen, unique, backup,
                   backup_outcome, ei, enriched, lookups, returned, jobVars>>

(***************************************************************************)
(* unpaywall_enrich (searcher.py 292-309).                                 *)
(***************************************************************************)
\* what the Unpaywall request can come to: an exception (network, timeout,
\* unparsable body), a status other than 200, a 200 without url_for_pdf, a
\* 200 with it
LookupOutcomes == {"exception", "non200", "no_oa", "oa"}

\* data['best_oa_location']['url_for_pdf'], per looked-up identifier
OaUrl(link) ==
    IF link = "http://arxiv.org/abs/1" THEN "https://oa.example/1.pdf"
    ELSE "https://oa.example/4.pdf"

\* an enrichment that leaves out the candidate whose request raised
EnrichStepDropFailed ==
    /\ pc = "enrich"
    /\ ei <= Len(recent)
    /\ LET ref == recent[ei]
           a == all_articles[ref]
       IN  IF ContainsArxiv(a.link)
           THEN \E outcome \in LookupOutcomes :
                 /\ lookups' = lookups + 1
                 /\ last_lookup' = [ref |-> ref, outcome |-> outcome]
                 /\ all_articles' =
                       IF outcome = "oa"
                       THEN [all_articles EXCEPT ![ref].link = OaUrl(a.link)]
                       ELSE all_articles
                 /\ enriched' = IF outcome = "exception" THEN enriched
                                ELSE Append(enriched, ref)
           ELSE /\ UNCHANGED <<lookups, last_lookup, all_articles>>
                /\ enriched' = Append(enriched, ref)
    /\ ei' = ei + 1
    /\ UNCHANGED <<pc, config, harness, aggVars, now, backup_path, di, seen,
                   unique, backup, backup_outcome, recent, older, returned,
                   jobVars>>

\* one iteration of `for a in articles`
EnrichStep ==
    /\ pc = "enrich"
    /\ ei <= Len(recent)
    /\ LET ref == recent[ei]
           a == all_articles[ref]
       IN  /\ IF ContainsArxiv(a.link)
              THEN \E outcome \in LookupOutcomes :
                    /\ lookups' = lookups + 1
                    /\ last_lookup' = [ref |-> ref, outcome |-> outcome]
                    /\ all_articles' =
                          IF outcome = "oa"
                          THEN [all_articles EXCEPT ![ref].link = OaUrl(a.link)]
                          ELSE all_articles
              ELSE UNCHANGED <<lookups, last_lookup, all_articles>>
           /\ enriched' = Append(enriched, ref)
    /\ ei' = ei + 1
    /\ UNCHANGED <<pc, config, harness, aggVars, now, backup_path, di, seen,
                   unique, backup, backup_outcome, recent, older, returned,
                   jobVars>>

\* return enriched; recent = unpaywall_enrich(recent); return recent
EnrichReturn ==
    /\ pc = "enrich"
    /\ ei > Len(recent)
    /\ recent' = enriched
    /\ returned' = <<enriched>>
    /\ pc' = "store"
    /\ UNCHANGED <<config, harness, all_articles, aggVars, now, backup_path, last_lookup, di, seen, unique, backup,
                   backup_outcome, older, ei, enriched, lookups, jobVars>>

(***************************************************************************)
(* run_weekly_job (scheduler.py 14-47).                                    *)
(***************************************************************************)
\* Article(title=.., authors=.., publish_date=.., link=..)
Row(a) == [title |-> a.title, authors |-> a.authors,
           publish_date |-> a.publish_date, link |-> a.link]

\* one iteration of `for article in articles`; the duplicate check runs with
\* autoflush off, so it reads the committed rows only
StoreStep ==
    /\ pc = "store"
    /\ si <= Len(returned[1])
    /\ LET article == all_articles[returned[1][si]]
       IN  IF \E row \in db : row.link = article.link
           THEN UNCHANGED <<pending, saved_count>>
           ELSE /\ pending' = Append(pending, Row(article))
                /\ saved_count' = saved_count + 1
    /\ si' = si + 1
    /\ UNCHANGED <<pc, config, harness, all_articles, aggVars, searchVars, raised, db>>

\* db.session.commit(): the unique constraint of Article.link (models.py 12)
Commit ==
    /\ pc = "store"
    /\ si > Len(returned[1])
    /\ IF \/ \E i, j \in 1..Len(pending) : i # j /\ pending[i].link = pending[j].link
          \/ \E i \in 1..Len(pending), row \in db : pending[i].link = row.link
       THEN /\ raised' = "IntegrityError"
            /\ pc' = "job_raised"
            /\ UNCHANGED db
       ELSE /\ db' = db \cup {pending[i] : i \in 1..Len(pending)}
            /\ pc' = "export"
            /\ UNCHANGED raised
    /\ UNCHANGED <<config, harness, all_articles, aggVars, searchVars, pending, si,
                   saved_count>>

\* the export of the week's rows to articles_week_<week>.json
Export ==
    /\ pc = "export"
    /\ pc' = "done"
    /\ UNCHANGED <<config, harness, all_articles, aggVars, searchVars, jobVars>>

(***************************************************************************)
(* The run from the end of the aggregation on.                             *)
(***************************************************************************)
StoredBefore == { {}, {[title |-> <<"x">>, authors |-> "Au1",
                        publish_date |-> <<19000>>, link |-> "doi2"]} }

\* the locals of weekly_search and run_weekly_job before the deduplication
SearchStart ==
    /\ now \in RunDays
    /\ di = 1
    /\ seen = {}
    /\ unique = <<>>
    /\ backup = [state |-> "absent", content |-> <<>>]
    /\ backup_path = <<>>
    /\ backup_outcome = "none"
    /\ recent = <<>>
    /\ older = <<>>
    /\ ei = 1
    /\ enriched = <<>>
    /\ lookups = 0
    /\ last_lookup = [ref |-> 0, outcome |-> "none"]
    /\ returned = <<>>
    /\ raised = ""
    /\ pending = <<>>
    /\ si = 1
    /\ saved_count = 0

Init ==
    /\ pc = "dedup"
    /\ G6_KEYWORDS = PipelineKeywords
    /\ ELSEVIER_API_KEY = "key"
    /\ SearchStart
    /\ all_articles \in SeqsUpTo(Pool(now), MaxAgg)
    /\ kw = Len(G6_KEYWORDS) + 1
    /\ ad = 1
    /\ attempt = 1
    /\ call_log = <<>>
    /\ last_call = [adapter |-> "none", rate_limited |-> FALSE, attempts |-> 0,
                    output |-> <<>>]
    /\ call_arg = <<>>
    /\ call_result = <<>>
    /\ writes = {}
    /\ runs = NoRuns
    /\ db \in StoredBefore

Next ==
    \/ DedupStep
    \/ DedupDone
    \/ BackupWrite
    \/ Select
    \/ EnrichStep
    \/ EnrichReturn
    \/ StoreStep
    \/ Commit
    \/ Export

Spec == Init /\ [][Next]_vars


(***************************************************************************)
(* The run on the answers of three sources: each returns A, one also B,    *)
(* whose title holds the keyword 'alpha', one also C, which holds          *)
(* 'alpha-like' in its abstract or in its title; all three are dated       *)
(* inside the window.                                                      *)
(***************************************************************************)
Alpha == <<"a", "l", "p", "h", "a">>

E2E_A == Cand(<<"x">>, "Au1", <<19999>>, "linkA", <<>>)
E2E_B == Cand(Alpha \o <<" ", "x">>, "Au1", <<19998>>, "linkB", <<>>)
AlphaLike == Alpha \o <<"-", "l", "i", "k", "e">>
E2E_C == { Cand(<<"y">>, "Au1", <<19997>>, "linkC", AlphaLike),
           Cand(AlphaLike, "Au1", <<19997>>, "linkC", <<>>) }

E2ESources(c) == << <<E2E_A>>, <<E2E_A, E2E_B>>, <<E2E_A, c>> >>

\* the orders in which the three sources are called
E2EOrders == {o \in [1..3 -> 1..3] : \A i, j \in 1..3 : o[i] = o[j] => i = j}

InitE2E ==
    /\ pc = "dedup"
    /\ G6_KEYWORDS = <<Alpha>>
    /\ ELSEVIER_API_KEY = "key"
    /\ SearchStart
    /\ \E o \in E2EOrders, c \in E2E_C :
          all_articles = E2ESources(c)[o[1]] \o E2ESources(c)[o[2]]
                            \o E2ESources(c)[o[3]]
    /\ kw = Len(G6_KEYWORDS) + 1
    /\ ad = 1
    /\ attempt = 1
    /\ call_log = <<>>
    /\ last_call = [adapter |-> "none", rate_limited |-> FALSE, attempts |-> 0,
                    output |-> <<>>]
    /\ call_arg = <<>>
    /\ call_result = <<>>
    /\ writes = {}
    /\ runs = NoRuns
    /\ db \in StoredBefore

SpecE2E == InitE2E /\ [][Next]_vars

(***************************************************************************)
(* The scorer on its own: calculate_relevance applied to one article whose *)
(* title and full_text range over the texts of bounded length.             *)
(***************************************************************************)
\* keyword lists over Chars; every phrase holds at least one word, as the
\* phrases of G6_KEYWORDS do
ScoreVocabularies ==
    { << <<"A", " ", "b">>, <<"b", "b">> >>,
      << <<"a">>, <<"b", " ", "A">> >>,
      << <<"A", "b">>, <<"b", " ", " ", "a">>, <<"a">> >> }

\* the fields the scorer has no business with
OtherFields ==
    { [authors |-> "Au1", publish_date |-> <<>>, link |-> "doi2"],
      [authors |-> "", publish_date |-> <<20000>>, link |-> "http://arxiv.org/abs/1"] }

InitScore ==
    /\ pc = "score"
    /\ G6_KEYWORDS \in ScoreVocabularies
    /\ ELSEVIER_API_KEY = "key"
    /\ SearchStart
    /\ \E title \in TextsUpTo(MaxTitleLen), full_text \in TextsUpTo(MaxTextLen),
          o \in OtherFields :
          all_articles = <<Cand(title, o.authors, o.publish_date, o.link, full_text)>>
    /\ kw = 1
    /\ ad = 1
    /\ attempt = 1
    /\ call_log = <<>>
    /\ last_call = [adapter |-> "none", rate_limited |-> FALSE, attempts |-> 0,
                    output |-> <<>>]
    /\ call_arg = <<>>
    /\ call_result = <<>>
    /\ writes = {}
    /\ runs = NoRuns
    /\ db = {}

\* a['relevance_score'] = calculate_relevance(a)
ScoreArticle ==
    /\ pc = "score"
    /\ all_articles' = [all_articles EXCEPT
           ![1].relevance_score = <<calculate_relevance(all_articles[1])>>]
    /\ pc' = "scored"
    /\ UNCHANGED <<config, harness, aggVars, searchVars, jobVars>>

NextScore == ScoreArticle

SpecScore == InitScore /\ [][NextScore]_vars

(***************************************************************************)
(* The source adapters (searcher.py 61-287) and the fan-out of             *)
(* weekly_search (searcher.py 338-348).                                    *)
(***************************************************************************)
\* the adapters of one keyword round, in call order
Adapters == <<"arxiv", "semantic", "core", "crossref", "sciencedirect">>

\* what the upstream of an adapter can answer
Statuses == {"ok", "network_error", "timeout", "http_error", "http_429", "malformed"}

(***************************************************************************)
(* A record of an upstream answer, as the adapters read it:                *)
(*   title    [key |-> the key is there, val |-> <<>> for null or <<text>>]*)
(*   authors  the names, in order                                          *)
(*   date     [form |-> "none" (missing, null or ''), "full" (a timestamp  *)
(*            YYYY-MM-DDTHH:MM:SS), "date" (YYYY-MM-DD), "year" (YYYY) or  *)
(*            "bad" (anything else), day |-> the day it denotes]           *)
(*   link     <<>> when the record has no link information, or <<url>>     *)
(*   abstract <<>> for missing or null, or <<text>>                        *)
(***************************************************************************)
Raw(title, authors, date, link, abstract) ==
    [title |-> title, authors |-> authors, date |-> date, link |-> link,
     abstract |-> abstract]

Titled(text) == [key |-> TRUE, val |-> <<text>>]
NullTitle == [key |-> TRUE, val |-> <<>>]
NoTitleKey == [key |-> FALSE, val |-> <<>>]
NoDate == [form |-> "none", day |-> 0]

\* the value None where the model keeps a plain text
PyNone == <<"None">>

\* the default 'No title available'
NoTitle == <<"No title available">>

\* '' if val is None else str(val)
_safe_str(val) == IF val = <<>> THEN <<>> ELSE val[1]

\* item.get(key), and item.get(key, default)
Get(field) == IF field.key THEN field.val ELSE <<>>
GetOr(field, default) == IF field.key THEN field.val ELSE <<default>>

\* ', '.join(names)
RECURSIVE Join(_)
Join(names) ==
    IF names = <<>> THEN <<>>
    ELSE IF Len(names) = 1 THEN names[1]
    ELSE names[1] \o <<",", " ">> \o Join(Tail(names))

\* ' ... et al.'
Marker == <<" ", ".", ".", ".", " ", "e", "t", " ", "a", "l", ".">>

\* the cut applied from 1000 characters on
TruncateFrom1000(authors) ==
    IF Len(authors) >= 1000 THEN SubSeq(authors, 1, 950) \o Marker ELSE authors

\* if len(authors) > 1000: authors = authors[:950] + ' ... et al.'
Truncate(authors) ==
    IF Len(authors) > 1000 THEN SubSeq(authors, 1, 950) \o Marker ELSE authors

\* datetime.strptime(str(year), '%Y').date(), of the year of day d
YearStart(d) == Jan1(Year(d))

\* f"http://arxiv.org/abs/{r.entry_id.split('/')[-1]}", for the entries of
\* the model
EntryLink(entry_id) ==
    IF entry_id \in {"http://arxiv.org/abs/1", "http://arxiv.org/abs/4"}
    THEN entry_id ELSE "http://arxiv.org/abs/4"

\* what the body of an item loop comes to: a candidate appended, the record
\* skipped, or an exception
Emit(c) == [kind |-> "emit", cand |-> c, exc |-> ""]
Skip == [kind |-> "skip", cand |-> <<>>, exc |-> ""]
Fail(exc) == [kind |-> "fail", cand |-> <<>>, exc |-> exc]

\* title or None, kept as a plain text
Plain(opt) == IF opt = <<>> THEN PyNone ELSE opt[1]

\* arxiv_search 72-82
arxiv_item(item) ==
    Emit(Cand(_safe_str(Get(item.title)), Truncate(Join(item.authors)),
              IF item.date.form = "none" THEN <<>> ELSE <<item.date.day>>,
              EntryLink(item.link[1]), _safe_str(item.abstract)))

\* semantic_search 107-118
semantic_item(item) ==
    IF item.date.form \notin {"none", "date"} THEN Fail("ValueError")
    ELSE Emit(Cand(_safe_str(Get(item.title)), Truncate(Join(item.authors)),
                   IF item.date.form = "none" THEN <<>> ELSE <<item.date.day>>,
                   IF item.link = <<>> THEN "" ELSE item.link[1],
                   _safe_str(item.abstract)))

\* scholarly_search 135-150: the inner except skips the record
scholarly_item(item) ==
    IF item.date.form \notin {"none", "year"} THEN Skip
    ELSE Emit(Cand(_safe_str(Get(item.title)), Truncate(Join(item.authors)),
                   IF item.date.form = "none" THEN <<>>
                   ELSE <<YearStart(item.date.day)>>,
                   IF item.link = <<>> THEN "" ELSE item.link[1],
                   _safe_str(item.abstract)))

\* core_search 173-202
core_item(item) ==
    LET title == GetOr(item.title, NoTitle)
    IN  IF title = <<NoTitle>> THEN Skip
        ELSE Emit(Cand(Plain(title), Truncate(Join(item.authors)),
                       IF item.date.form \in {"full", "date"}
                       THEN <<item.date.day>> ELSE <<>>,
                       IF item.link = <<>> THEN "https://core.ac.uk"
                       ELSE item.link[1],
                       _safe_str(item.abstract)))

\* sciencedirect_search 228-248
sciencedirect_item(item) ==
    LET title == GetOr(item.title, NoTitle)
    IN  IF title = <<NoTitle>> THEN Skip
        ELSE IF item.link = <<>> THEN Fail("IndexError")
        ELSE Emit(Cand(Plain(title), Truncate(Join(item.authors)),
                       IF item.date.form = "date" THEN <<item.date.day>>
                       ELSE <<>>,
                       item.link[1], _safe_str(item.abstract)))

\* crossref_search 262-282: title is a list, published.date-parts holds the
\* year
crossref_item(item) ==
    IF item.title.val = <<>> THEN Skip
    ELSE IF item.date.form = "bad" THEN Fail("ValueError")
    ELSE Emit(Cand(item.title.val[1], Truncate(Join(item.authors)),
                   IF item.date.form = "none" THEN <<>>
                   ELSE <<YearStart(item.date.day)>>,
                   IF item.link = <<>> THEN "https://crossref.org"
                   ELSE item.link[1],
                   _safe_str(item.abstract)))

ItemBody(adapter, item) ==
    CASE adapter = "arxiv" -> arxiv_item(item)
      [] adapter = "semantic" -> semantic_item(item)
      [] adapter = "core" -> core_item(item)
      [] adapter = "crossref" -> crossref_item(item)
      [] adapter = "sciencedirect" -> sciencedirect_item(item)
      [] adapter = "scholarly" -> scholarly_item(item)

\* the records an upstream can deliver: arxiv.Result always has a title
\* attribute and an entry_id, and published is a datetime or None
Deliverable(adapter, item) ==
    adapter = "arxiv" =>
        /\ item.title.key
        /\ item.link # <<>>
        /\ item.date.form # "bad"

\* the records of a well-formed upstream answer in the fan-out
ItemPool ==
    { Raw(Titled(<<"a", " ", "b">>), << <<"A">> >>, [form |-> "date", day |-> 19999],
          <<"http://arxiv.org/abs/1">>, <<>>),
      Raw(Titled(<<"x">>), <<>>, NoDate, <<"doi3">>, << <<"c">> >>) }

\* the answers to one request that leave the aggregated list within MaxAgg
Responses(room) ==
    {[status |-> st, items |-> <<>>] : st \in Statuses \ {"ok"}}
    \cup {[status |-> "ok", items |-> it] :
              it \in SeqsUpTo(ItemPool, IF room < 1 THEN room ELSE 1)}

Return(value) == [kind |-> "return", value |-> value, exc |-> ""]
Raise(exc) == [kind |-> "raise", value |-> <<>>, exc |-> exc]

\* for item in ..: articles.append({..}); return articles
RECURSIVE ItemLoop(_, _, _)
ItemLoop(adapter, items, articles) ==
    IF items = <<>> THEN Return(articles)
    ELSE LET r == ItemBody(adapter, Head(items))
         IN  IF r.kind = "fail" THEN Raise(r.exc)
             ELSE ItemLoop(adapter, Tail(items),
                           IF r.kind = "emit" THEN Append(articles, r.cand)
                           ELSE articles)

\* except Exception as e: logger.error(..); return []
Catch(r) == IF r.kind = "raise" THEN Return(<<>>) ELSE r

\* the exception requests.get, raise_for_status or resp.json() raises
RequestFailure(resp) ==
    IF resp.status = "network_error" THEN Raise("ConnectionError")
    ELSE IF resp.status = "timeout" THEN Raise("Timeout")
    ELSE IF resp.status \in {"http_error", "http_429"} THEN Raise("HTTPError")
    ELSE Raise("ValueError")

\* the try block of arxiv_search (62-84)
arxiv_search_try(resp) ==
    IF resp.status = "ok" THEN ItemLoop("arxiv", resp.items, <<>>) ELSE Raise("Exception")

arxiv_search(resp) == Catch(arxiv_search_try(resp))

\* the try block of semantic_search (99-120)
semantic_search_try(resp) ==
    IF resp.status \in {"network_error", "timeout"} THEN RequestFailure(resp)
    ELSE IF resp.status = "http_429" THEN Return(<<>>)
    ELSE IF resp.status = "ok" THEN ItemLoop("semantic", resp.items, <<>>)
    ELSE RequestFailure(resp)

semantic_search(resp) == Catch(semantic_search_try(resp))

\* the try block of core_search (160-204)
core_search_try(resp) ==
    IF resp.status \in {"network_error", "timeout"} THEN RequestFailure(resp)
    ELSE IF resp.status = "http_429" THEN Raise("HTTPError")
    ELSE IF resp.status = "ok" THEN ItemLoop("core", resp.items, <<>>)
    ELSE RequestFailure(resp)

\* core_search with the raise of line 168 outside the reach of its except
core_search_uncaught(resp) ==
    IF resp.status = "http_429" THEN Raise("HTTPError")
    ELSE Catch(core_search_try(resp))

core_search(resp) == Catch(core_search_try(resp))

\* the try block of crossref_search (256-284)
crossref_search_try(resp) ==
    IF resp.status = "ok" THEN ItemLoop("crossref", resp.items, <<>>) ELSE RequestFailure(resp)

crossref_search(resp) == Catch(crossref_search_try(resp))

\* the try block of sciencedirect_search (215-250)
sciencedirect_search_try(resp) ==
    IF resp.status \in {"network_error", "timeout"} THEN RequestFailure(resp)
    ELSE IF resp.status = "http_429" THEN Raise("HTTPError")
    ELSE IF resp.status = "ok" THEN ItemLoop("sciencedirect", resp.items, <<>>)
    ELSE RequestFailure(resp)

sciencedirect_search(resp) ==
    IF ELSEVIER_API_KEY = "" THEN Return(<<>>)
    ELSE Catch(sciencedirect_search_try(resp))

\* the try block of scholarly_search (130-152)
scholarly_search_try(resp) ==
    IF resp.status = "ok" THEN ItemLoop("scholarly", resp.items, <<>>) ELSE Raise("Exception")

scholarly_search(resp) == Catch(scholarly_search_try(resp))

AdapterBody(adapter, resp) ==
    CASE adapter = "arxiv" -> arxiv_search(resp)
      [] adapter = "semantic" -> semantic_search(resp)
      [] adapter = "core" -> core_search(resp)
      [] adapter = "crossref" -> crossref_search(resp)
      [] adapter = "sciencedirect" -> sciencedirect_search(resp)
      [] adapter = "scholarly" -> scholarly_search(resp)

\* @retry(stop=stop_after_attempt(n), ..): 0 for an adapter without it
AttemptCap(adapter) ==
    CASE adapter = "semantic" -> 3
      [] adapter \in {"core", "sciencedirect"} -> 5
      [] OTHER -> 0

\* how the upstream answered, as the call log keeps it
OutcomeClass(adapter, resp) ==
    IF adapter = "sciencedirect" /\ ELSEVIER_API_KEY = "" THEN "skipped"
    ELSE IF resp.status = "ok" THEN "ok" ELSE "failed"

\* the request of the call was sent and answered with status 429
RateLimited(adapter, resp) ==
    /\ resp.status = "http_429"
    /\ ~(adapter = "sciencedirect" /\ ELSEVIER_API_KEY = "")

\* a call whose result is added without the candidates already aggregated
CallAdapterNoDuplicates(adapter, keyword, after) ==
    \E resp \in Responses(MaxAgg - Len(all_articles)) :
        LET r == AdapterBody(adapter, resp)
        IN  IF r.kind = "return"
            THEN /\ all_articles' = all_articles \o SelectSeq(r.value,
                        LAMBDA c : \A n \in 1..Len(all_articles) :
                                      all_articles[n] # c)
                 /\ call_log' = Append(call_log,
                        [adapter |-> adapter, keyword |-> keyword,
                         outcome |-> OutcomeClass(adapter, resp)])
                 /\ last_call' = [adapter |-> adapter,
                                  rate_limited |-> RateLimited(adapter, resp),
                                  attempts |-> attempt, output |-> r.value]
                 /\ attempt' = 1
                 /\ pc' = after.pc
                 /\ ad' = after.ad
                 /\ UNCHANGED raised
            ELSE IF r.exc = "HTTPError" /\ attempt < AttemptCap(adapter)
            THEN /\ attempt' = attempt + 1
                 /\ UNCHANGED <<all_articles, call_log, last_call, pc, ad, raised>>
            ELSE /\ raised' = IF r.exc = "HTTPError" /\ AttemptCap(adapter) > 0
                              THEN "RetryError" ELSE r.exc
                 /\ pc' = "job_raised"
                 /\ UNCHANGED <<all_articles, call_log, last_call, attempt, ad>>

\* One attempt of the call of `adapter`: the result is appended and `after`
\* is the position that follows; an HTTPError under @retry is tried again
\* until the cap, then RetryError leaves weekly_search, as any other
\* exception does at once.
CallAdapter(adapter, keyword, after) ==
    \E resp \in Responses(MaxAgg - Len(all_articles)) :
        LET r == AdapterBody(adapter, resp)
        IN  IF r.kind = "return"
            THEN /\ all_articles' = all_articles \o r.value
                 /\ call_log' = Append(call_log,
                        [adapter |-> adapter, keyword |-> keyword,
                         outcome |-> OutcomeClass(adapter, resp)])
                 /\ last_call' = [adapter |-> adapter,
                                  rate_limited |-> RateLimited(adapter, resp),
                                  attempts |-> attempt, output |-> r.value]
                 /\ attempt' = 1
                 /\ pc' = after.pc
                 /\ ad' = after.ad
                 /\ UNCHANGED raised
            ELSE IF r.exc = "HTTPError" /\ attempt < AttemptCap(adapter)
            THEN /\ attempt' = attempt + 1
                 /\ UNCHANGED <<all_articles, call_log, last_call, pc, ad, raised>>
            ELSE /\ raised' = IF r.exc = "HTTPError" /\ AttemptCap(adapter) > 0
                              THEN "RetryError" ELSE r.exc
                 /\ pc' = "job_raised"
                 /\ UNCHANGED <<all_articles, call_log, last_call, attempt, ad>>

\* a round that sleeps after each of its calls
RoundCallPaced ==
    /\ pc = "aggregate"
    /\ CallAdapter(Adapters[ad], kw, [pc |-> "sleep", ad |-> ad])
    /\ UNCHANGED <<config, harness, kw, searchVars, db, pending, si, saved_count>>

\* all_articles += <adapter>_search(kw, max_results=30), lines 341-345
RoundCall ==
    /\ pc = "aggregate"
    /\ CallAdapter(Adapters[ad], kw,
                   IF ad < Len(Adapters) THEN [pc |-> "aggregate", ad |-> ad + 1]
                   ELSE [pc |-> "sleep", ad |-> ad])
    /\ UNCHANGED <<config, harness, kw, searchVars, db, pending, si, saved_count>>

\* time.sleep(5), line 346, and the next keyword of the loop
RoundSleep ==
    /\ pc = "sleep"
    /\ kw' = kw + 1
    /\ ad' = 1
    /\ pc' = IF kw < Len(G6_KEYWORDS) THEN "aggregate" ELSE "scholarly"
    /\ UNCHANGED <<config, harness, all_articles, attempt, call_log, last_call, searchVars, jobVars>>

\* all_articles += scholarly_search(G6_KEYWORDS[0], max_results=30), line 348
ScholarlyCall ==
    /\ pc = "scholarly"
    /\ CallAdapter("scholarly", 1, [pc |-> "dedup", ad |-> ad])
    /\ UNCHANGED <<config, harness, kw, searchVars, db, pending, si, saved_count>>

InitAgg ==
    /\ pc = "aggregate"
    /\ G6_KEYWORDS = PipelineKeywords
    /\ ELSEVIER_API_KEY \in {"", "key"}
    /\ SearchStart
    /\ all_articles = <<>>
    /\ kw = 1
    /\ ad = 1
    /\ attempt = 1
    /\ call_log = <<>>
    /\ last_call = [adapter |-> "none", rate_limited |-> FALSE, attempts |-> 0,
                    output |-> <<>>]
    /\ call_arg = <<>>
    /\ call_result = <<>>
    /\ writes = {}
    /\ runs = NoRuns
    /\ db = {}

NextAgg ==
    \/ RoundCall
    \/ RoundSleep
    \/ ScholarlyCall

SpecAgg == InitAgg /\ [][NextAgg]_vars

(***************************************************************************)
(* An adapter on its own: one call whose upstream answers with up to       *)
(* MaxItems records.                                                       *)
(***************************************************************************)
Repeat(c, n) == [i \in 1..n |-> c]

\* records with and without a title, with every form of date, with author
\* lists at and around the 1000 characters, with and without a link
NormPool ==
    LET date == [form |-> "date", day |-> 19999]
        names == << <<"A">>, <<"b">> >>
        link == <<"doi3">>
    IN  { Raw(Titled(<<"x">>), names, date, link, << <<"c">> >>),
          Raw(NoTitleKey, names, date, link, <<>>),
          Raw(NullTitle, names, date, link, <<>>),
          Raw(Titled(<<>>), names, date, link, <<>>),
          Raw(Titled(<<"a">>), names, [form |-> "full", day |-> 19999],
              <<"http://arxiv.org/abs/1">>, <<>>),
          Raw(Titled(<<"a">>), <<>>, [form |-> "year", day |-> 19999], link, <<>>),
          Raw(Titled(<<"a">>), names, [form |-> "bad", day |-> 0], link, <<>>),
          Raw(Titled(<<"b">>), names, NoDate, <<>>, <<>>),
          Raw(Titled(<<"b">>), <<Repeat("n", 1000)>>, NoDate, link, <<>>),
          Raw(Titled(<<"b">>), <<Repeat("n", 499), Repeat("m", 500)>>, NoDate,
              link, <<>>),
          Raw(Titled(<<"b">>), <<Repeat("n", 1200)>>, date, link, <<>>) }

InitNorm ==
    /\ pc = "normalise"
    /\ G6_KEYWORDS = PipelineKeywords
    /\ ELSEVIER_API_KEY = "key"
    /\ SearchStart
    /\ all_articles = <<>>
    /\ kw = 1
    /\ ad = 1
    /\ attempt = 1
    /\ call_log = <<>>
    /\ last_call = [adapter |-> "none", rate_limited |-> FALSE, attempts |-> 0,
                    output |-> <<>>]
    /\ db = {}
    /\ \E adapter \in {Adapters[i] : i \in 1..Len(Adapters)} \cup {"scholarly"},
          items \in SeqsUpTo(NormPool, MaxItems) :
          /\ \A i \in 1..Len(items) : Deliverable(adapter, items[i])
          /\ call_arg = [adapter |-> adapter,
                         resp |-> [status |-> "ok", items |-> items]]
    /\ call_result = <<>>
    /\ writes = {}
    /\ runs = NoRuns

\* <adapter>_search(query)
AdapterCall ==
    /\ pc = "normalise"
    /\ call_result' = <<AdapterBody(call_arg.adapter, call_arg.resp)>>
    /\ pc' = "normalised"
    /\ UNCHANGED <<config, call_arg, writes, runs, all_articles, aggVars,
                   searchVars, jobVars>>

NextNorm == AdapterCall

SpecNorm == InitNorm /\ [][NextNorm]_vars

(***************************************************************************)
(* generate_summary (summarizer.py 12-66) on its own: one call, the model  *)
(* answering each attempt.                                                 *)
(***************************************************************************)
\* text.strip()
RECURSIVE LStrip(_)
LStrip(t) == IF t # <<>> /\ Head(t) = " " THEN LStrip(Tail(t)) ELSE t

RECURSIVE RStrip(_)
RStrip(t) ==
    IF t # <<>> /\ t[Len(t)] = " " THEN RStrip(SubSeq(t, 1, Len(t) - 1)) ELSE t

Strip(t) == RStrip(LStrip(t))

\* s.ljust(n, ' ')
LJust(s, n) == IF Len(s) < n THEN s \o Repeat(" ", n - Len(s)) ELSE s

\* "No valid text provided for summarization."
NoValidText ==
    <<"N", "o", " ", "v", "a", "l", "i", "d", " ", "t", "e", "x",
      "t", " ", "p", "r", "o", "v", "i", "d", "e", "d", " ", "f",
      "o", "r", " ", "s", "u", "m", "m", "a", "r", "i", "z", "a",
      "t", "i", "o", "n", ".">>

\* "Error generating summary."
ErrorText ==
    <<"E", "r", "r", "o", "r", " ", "g", "e", "n", "e", "r", "a",
      "t", "i", "n", "g", " ", "s", "u", "m", "m", "a", "r", "y",
      ".">>

DefaultSummary == [summary |-> NoValidText, key_points |-> <<>>]
ErrorSummary == [summary |-> ErrorText, key_points |-> <<>>]

\* the texts generate_summary is called with: empty, 49 characters, 50
\* characters, 60 characters of which 48 are left by strip()
SummaryTexts ==
    {<<>>, Repeat("t", 49), Repeat("t", 50),
     Repeat(" ", 6) \o Repeat("t", 48) \o Repeat(" ", 6)}

\* what client.chat comes to: an exception, a content without a JSON
\* object, one whose object does not parse, or an object whose summary is
\* missing, null or a string and whose key_points is a list
NoReply == [kind |-> "none", summary |-> NoTitleKey, key_points |-> <<>>]
Replies ==
    {[kind |-> k, summary |-> NoTitleKey, key_points |-> <<>>] :
        k \in {"chat_error", "no_json", "bad_json"}}
    \cup {[kind |-> "json", summary |-> sm,
           key_points |-> [i \in 1..n |-> "point"]] :
             sm \in {NoTitleKey, NullTitle} \cup
                    {Titled(Repeat("s", len)) : len \in {0, 199, 200, 250, 251, 300}},
             n \in 0..MaxPoints}

\* the body of generate_summary, for the reply client.chat gives
generate_summary_try(text, reply) ==
    IF text = <<>> \/ Len(Strip(text)) < 50 THEN Return(DefaultSummary)
    ELSE IF reply.kind = "chat_error" THEN Raise("UnboundLocalError")
    ELSE IF reply.kind \in {"no_json", "bad_json"} THEN Return(ErrorSummary)
    ELSE IF reply.summary = NullTitle THEN Return(ErrorSummary)
    ELSE LET summary == GetOr(reply.summary, <<>>)[1]
             cut == IF Len(summary) > 250
                    THEN SubSeq(summary, 1, 247) \o <<".", ".", ".">>
                    ELSE summary
             base == IF reply.key_points = <<>>
                     THEN <<"No key points provided">> ELSE reply.key_points
             key_points == IF Len(reply.key_points) < 3
                           THEN base \o Repeat("Generic point", 3 - Len(base))
                           ELSE reply.key_points
         IN  Return([summary |-> LJust(cut, 200),
                     key_points |-> Take(key_points, 5)])

InitSummary ==
    /\ pc = "summarise"
    /\ G6_KEYWORDS = PipelineKeywords
    /\ ELSEVIER_API_KEY = "key"
    /\ SearchStart
    /\ all_articles = <<>>
    /\ kw = 1
    /\ ad = 1
    /\ attempt = 1
    /\ call_log = <<>>
    /\ last_call = [adapter |-> "none", rate_limited |-> FALSE, attempts |-> 0,
                    output |-> <<>>]
    /\ db = {}
    /\ \E text \in SummaryTexts : call_arg = [text |-> text, reply |-> NoReply]
    /\ call_result = <<>>
    /\ writes = {}
    /\ runs = NoRuns

\* one attempt of generate_summary(text) under @retry(stop_after_attempt(3),
\* retry_if_exception_type(Exception))
GenerateSummary ==
    /\ pc = "summarise"
    /\ \E reply \in IF call_arg.text = <<>> \/ Len(Strip(call_arg.text)) < 50
                     THEN {NoReply} ELSE Replies :
        LET r == generate_summary_try(call_arg.text, reply)
        IN  /\ call_arg' = [call_arg EXCEPT !.reply = reply]
            /\ IF r.kind = "return"
               THEN /\ call_result' = <<r.value>>
                    /\ pc' = "summarised"
                    /\ UNCHANGED <<attempt, raised>>
               ELSE IF attempt < 3
               THEN /\ attempt' = attempt + 1
                    /\ UNCHANGED <<pc, call_result, raised>>
               ELSE /\ raised' = "RetryError"
                    /\ pc' = "job_raised"
                    /\ UNCHANGED <<attempt, call_result>>
    /\ UNCHANGED <<config, writes, runs, all_articles, kw, ad, call_log,
                   last_call, searchVars, db, pending, si, saved_count>>

NextSummary == GenerateSummary

SpecSummary == InitSummary /\ [][NextSummary]_vars

(***************************************************************************)
(* The backup files of successive runs: each run writes the file named     *)
(* after its date.                                                         *)
(***************************************************************************)
\* run dates around the turns of 2024/2025, 2025/2026 and 2026/2027:
\* 19723 is 2024-01-01, 20087 is 2024-12-30, 20454 is 2026-01-01 and 20819
\* is 2027-01-01
WeekDays == (19723..19729) \cup (20084..20092) \cup {20454, 20819, 20822}

InitWeek ==
    /\ pc = "week"
    /\ G6_KEYWORDS = PipelineKeywords
    /\ ELSEVIER_API_KEY = "key"
    /\ now \in WeekDays
    /\ di = 1
    /\ seen = {}
    /\ unique = <<>>
    /\ backup = [state |-> "absent", content |-> <<>>]
    /\ backup_path = <<>>
    /\ backup_outcome = "none"
    /\ recent = <<>>
    /\ older = <<>>
    /\ ei = 1
    /\ enriched = <<>>
    /\ lookups = 0
    /\ last_lookup = [ref |-> 0, outcome |-> "none"]
    /\ returned = <<>>
    /\ raised = ""
    /\ pending = <<>>
    /\ si = 1
    /\ saved_count = 0
    /\ all_articles = <<>>
    /\ kw = 1
    /\ ad = 1
    /\ attempt = 1
    /\ call_log = <<>>
    /\ last_call = [adapter |-> "none", rate_limited |-> FALSE, attempts |-> 0,
                    output |-> <<>>]
    /\ call_arg = <<>>
    /\ call_result = <<>>
    /\ writes = {}
    /\ runs = NoRuns
    /\ db = {}

\* the backup of the run of day `now`: open(backup_path, "w")
WeekBackup ==
    /\ pc = "week"
    /\ backup_path' = <<BackupPath(now)>>
    /\ writes' = writes \cup {[day |-> now, path |-> BackupPath(now)]}
    /\ pc' = "week_done"
    /\ UNCHANGED <<config, call_arg, call_result, runs, all_articles, aggVars,
                   now, di, seen, unique, backup, backup_outcome, recent, older,
                   ei, enriched, lookups, last_lookup, returned, jobVars>>

\* the next run, on a later day
WeekNext ==
    /\ pc = "week_done"
    /\ Cardinality(writes) < MaxRuns
    /\ \E d \in WeekDays : d > now /\ now' = d
    /\ pc' = "week"
    /\ UNCHANGED <<config, harness, all_articles, aggVars, di, seen, unique,
                   backup, backup_path, backup_outcome, recent, older, ei,
                   enriched, lookups, last_lookup, returned, jobVars>>

NextWeek ==
    \/ WeekBackup
    \/ WeekNext

SpecWeek == InitWeek /\ [][NextWeek]_vars

(***************************************************************************)
(* Properties of the run.                                                  *)
(***************************************************************************)
Refs == 1..Len(all_articles)
UniqueRefs == {unique[k] : k \in 1..Len(unique)}
SameTitleLink(a, b) == a.title = b.title /\ a.link = b.link
Dated(r) == all_articles[r].publish_date # <<>>
InWindow(r) == Dated(r) /\ all_articles[r].publish_date[1] >= now - Window
OutOfWindow(r) == Dated(r) /\ all_articles[r].publish_date[1] < now - Window
\* the selection has been made
Selected == pc \in {"enrich", "store", "export", "done"} \/ raised = "IntegrityError"

\* C1: after the deduplication pass the unique list holds no two candidates
\* of equal (title, link), holds one candidate for every (title, link) of
\* the aggregated list, each of them the first occurrence of its key, in
\* first-seen order; the pass changes no field of a candidate but the
\* relevance_score of one it keeps.
C1_DedupFirstWins ==
    /\ [](pc = "backup" =>
            /\ \A j, k \in 1..Len(unique) :
                  j < k => /\ unique[j] < unique[k]
                           /\ ~SameTitleLink(all_articles[unique[j]],
                                             all_articles[unique[k]])
            /\ \A i \in Refs : \E k \in 1..Len(unique) :
                  /\ SameTitleLink(all_articles[unique[k]], all_articles[i])
                  /\ unique[k] <= i
            /\ \A k \in 1..Len(unique) : \A i \in Refs :
                  i < unique[k] =>
                      ~SameTitleLink(all_articles[i], all_articles[unique[k]]))
    /\ [][pc = "dedup" =>
            /\ Len(all_articles') = Len(all_articles)
            /\ \A i \in Refs :
                  /\ all_articles'[i].title = all_articles[i].title
                  /\ all_articles'[i].link = all_articles[i].link
                  /\ all_articles'[i].authors = all_articles[i].authors
                  /\ all_articles'[i].publish_date = all_articles[i].publish_date
                  /\ all_articles'[i].full_text = all_articles[i].full_text]_vars

\* a duplicate with other fields was dropped and a later new key kept
C1_Witness ==
    /\ pc = "backup"
    /\ Len(all_articles) = 3
    /\ unique = <<1, 3>>
    /\ SameTitleLink(all_articles[1], all_articles[2])
    /\ all_articles[1].publish_date # all_articles[2].publish_date

\* C2 as stated: every returned record is in the backup under the
\* (title, link) it has in the returned list, and the backup holds at least
\* as many records as are returned.
C2_ReturnedKeyInBackup ==
    returned # <<>> =>
        /\ \A j \in 1..Len(returned[1]) :
              \E k \in 1..Len(backup.content) :
                  SameTitleLink(backup.content[k], all_articles[returned[1][j]])
        /\ Len(backup.content) >= Len(returned[1])

\* C2 amended: every returned record is in the backup with its title and
\* with the link it had before link enrichment (its present link, unless
\* the enrichment replaced an arXiv link by the open-access URL), distinct
\* returned records in distinct backup records, so the backup holds at
\* least as many records as are returned.
C2_ReturnedInBackupBeforeEnrichment ==
    returned # <<>> =>
        /\ \A j \in 1..Len(returned[1]) :
              \E k \in 1..Len(backup.content) :
                  LET a == all_articles[returned[1][j]]
                      b == backup.content[k]
                  IN  /\ k <= Len(unique)
                      /\ unique[k] = returned[1][j]
                      /\ b.title = a.title
                      /\ \/ b.link = a.link
                         \/ ContainsArxiv(b.link) /\ a.link = OaUrl(b.link)
        /\ \A i, j \in 1..Len(returned[1]) : i # j => returned[1][i] # returned[1][j]
        /\ Len(backup.content) >= Len(returned[1])

\* a returned record whose link the enrichment replaced
C2_Witness ==
    /\ returned # <<>>
    /\ \E j \in 1..Len(returned[1]) :
          /\ all_articles[returned[1][j]].link = "https://oa.example/1.pdf"
          /\ \A k \in 1..Len(backup.content) :
                backup.content[k].link # "https://oa.example/1.pdf"
    /\ Len(backup.content) > Len(returned[1])

\* C3: when the selection starts the backup file is complete and holds the
\* whole unique list, undated and out-of-window candidates included, with
\* the scores; nothing has been selected or looked up yet; and no later
\* step of the run changes the file.
C3_BackupBeforeSelection ==
    /\ [](pc = "select" =>
            /\ backup.state = "complete"
            /\ Len(backup.content) = Len(unique)
            /\ \A k \in 1..Len(unique) :
                  /\ SameTitleLink(backup.content[k], all_articles[unique[k]])
                  /\ backup.content[k].relevance_score = ScoreOf(unique[k])
                  /\ (backup.content[k].publish_date = <<>>) = ~Dated(unique[k])
            /\ \A i \in Refs : \E k \in 1..Len(backup.content) :
                  SameTitleLink(backup.content[k], all_articles[i])
            /\ recent = <<>> /\ older = <<>> /\ enriched = <<>>
            /\ ei = 1 /\ lookups = 0 /\ returned = <<>>)
    /\ [][pc \notin {"dedup", "backup"} => backup' = backup]_vars

\* the selection is about to start and the file holds an undated, an
\* out-of-window and a recent candidate
C3_Witness ==
    /\ pc = "select"
    /\ backup.state = "complete"
    /\ Len(backup.content) = 3
    /\ \E k \in 1..3 : backup.content[k].publish_date = <<>>
    /\ \E k \in 1..3 : OutOfWindow(unique[k])
    /\ \E k \in 1..3 : InWindow(unique[k])

\* C4: when creating or writing the backup fails, the run ends there with
\* the error raised out of run_weekly_job: nothing selected, no lookup
\* sent, nothing returned, no row added or committed.
C4_BackupFailureAborts ==
    backup_outcome \notin {"none", "ok"} =>
        /\ pc = "job_raised"
        /\ raised = "OSError"
        /\ recent = <<>> /\ older = <<>> /\ enriched = <<>>
        /\ ei = 1 /\ lookups = 0
        /\ returned = <<>>
        /\ pending = <<>> /\ saved_count = 0 /\ si = 1
        /\ db \in StoredBefore

\* the write failed half way with candidates at hand
C4_Witness ==
    /\ backup_outcome = "write_error"
    /\ backup.state = "partial"
    /\ Len(unique) = 3
    /\ \E k \in 1..3 : InWindow(unique[k])
    /\ \E k \in 1..3 : ContainsArxiv(all_articles[unique[k]].link)

\* the number of unique candidates dated inside the window
RecentCount == Cardinality({r \in UniqueRefs : InWindow(r)})
OlderSet == {r \in UniqueRefs : OutOfWindow(r)}

C6_FillFromOlder ==
    (Selected /\ RecentCount < Quota) =>
        LET R == RecentCount
            n == Len(recent)
            room == Quota - R
            want == IF room < Cardinality(OlderSet) THEN room ELSE Cardinality(OlderSet)
            taken == {recent[j] : j \in (R + 1)..n}
        IN  /\ n = R + want
            /\ n <= Quota
            /\ \A j \in 1..R : InWindow(recent[j])
            /\ \A i, j \in 1..R : i < j => recent[i] < recent[j]
            /\ \A j \in (R + 1)..n : recent[j] \in OlderSet
            /\ \A i, j \in (R + 1)..n :
                  i < j => \/ ScoreOf(recent[i]) > ScoreOf(recent[j])
                           \/ /\ ScoreOf(recent[i]) = ScoreOf(recent[j])
                              /\ recent[i] < recent[j]
            /\ \A o \in OlderSet \ taken : \A t \in taken :
                  \/ ScoreOf(o) < ScoreOf(t)
                  \/ ScoreOf(o) = ScoreOf(t) /\ t < o

\* one recent candidate, and of two older ones of equal score one is taken
C6_Witness ==
    /\ returned # <<>>
    /\ RecentCount = 1
    /\ Cardinality(OlderSet) = 2
    /\ \A o, t \in OlderSet : ScoreOf(o) = ScoreOf(t)
    /\ Len(returned[1]) = Quota

\* C7: no candidate without a publish_date is in the selected list, in the
\* older pool or in the returned list.
C7_UndatedNeverSelected ==
    /\ \A j \in 1..Len(recent) : Dated(recent[j])
    /\ \A j \in 1..Len(older) : Dated(older[j])
    /\ \A j \in 1..Len(enriched) : Dated(enriched[j])
    /\ returned # <<>> => \A j \in 1..Len(returned[1]) : Dated(returned[1][j])

\* an undated unique candidate stays out of an output shorter than the quota
C7_Witness ==
    /\ returned # <<>>
    /\ Len(returned[1]) < Quota
    /\ \E r \in UniqueRefs : ~Dated(r)
    /\ Cardinality(OlderSet) = 1


(***************************************************************************)
(* Properties of the scorer (under SpecScore).                             *)
(***************************************************************************)
ScoredTitle == Lower(all_articles[1].title)
ScoredText == Lower(all_articles[1].title \o <<" ">> \o all_articles[1].full_text)

\* the words of a phrase: its maximal runs of non-blank characters
WordsOf(p) ==
    { SubSeq(p, i, j) : <<i, j>> \in
        { ij \in (1..Len(p)) \X (1..Len(p)) :
            /\ ij[1] <= ij[2]
            /\ \A k \in ij[1]..ij[2] : p[k] # " "
            /\ (ij[1] = 1 \/ p[ij[1] - 1] = " ")
            /\ (ij[2] = Len(p) \/ p[ij[2] + 1] = " ") } }

\* the keywords with a word in the text, and those whose phrase is in the title
WordHits ==
    { i \in 1..Len(G6_KEYWORDS) :
        \E w \in WordsOf(Lower(G6_KEYWORDS[i])) : IsSubstring(w, ScoredText) }
TitleHits ==
    { i \in 1..Len(G6_KEYWORDS) : IsSubstring(Lower(G6_KEYWORDS[i]), ScoredTitle) }

\* C8: the score is the number of keywords with at least one word in the
\* lower-cased title + ' ' + full_text, plus three times the number of
\* keywords whose lower-cased phrase is in the lower-cased title; it is a
\* function of title and full_text alone.
C8_ScoreFormula ==
    pc = "scored" =>
        all_articles[1].relevance_score =
            <<Cardinality(WordHits) + 3 * Cardinality(TitleHits)>>

\* a keyword with two words in the text counts once; a title in upper case
C8_Witness ==
    /\ pc = "scored"
    /\ \E i \in WordHits :
          Cardinality({w \in WordsOf(Lower(G6_KEYWORDS[i])) :
                          IsSubstring(w, ScoredText)}) = 2
    /\ TitleHits # {}
    /\ all_articles[1].title # ScoredTitle
    /\ all_articles[1].full_text # <<>>
    /\ all_articles[1].relevance_score = <<5>>

\* the keyword list without its i-th phrase
WithoutKeyword(i) ==
    SubSeq(G6_KEYWORDS, 1, i - 1) \o SubSeq(G6_KEYWORDS, i + 1, Len(G6_KEYWORDS))

\* C9: a keyword whose phrase is in the title adds 4 to the score, the word
\* point and the title bonus: the score is 4 above the score under the
\* keyword list without that keyword.
C9_TitlePhraseAddsFour ==
    pc = "scored" =>
        \A i \in TitleHits :
            all_articles[1].relevance_score =
                <<ScoreWith(all_articles[1], WithoutKeyword(i)) + 4>>

\* a two-word phrase in the title, and another keyword that only word-matches
C9_Witness ==
    /\ pc = "scored"
    /\ \E i \in TitleHits : Cardinality(WordsOf(Lower(G6_KEYWORDS[i]))) = 2
    /\ WordHits \ TitleHits # {}
    /\ all_articles[1].relevance_score = <<5>>

(***************************************************************************)
(* Properties of the fan-out (under SpecAgg).                              *)
(***************************************************************************)
\* the calls weekly_search makes, in order
Schedule ==
    [n \in 1..(Len(Adapters) * Len(G6_KEYWORDS) + 1) |->
        IF n > Len(Adapters) * Len(G6_KEYWORDS)
        THEN [adapter |-> "scholarly", keyword |-> 1]
        ELSE [adapter |-> Adapters[((n - 1) % Len(Adapters)) + 1],
              keyword |-> ((n - 1) \div Len(Adapters)) + 1]]

\* the number of calls that have returned at the present position
CallsDue ==
    IF pc = "aggregate" THEN (kw - 1) * Len(Adapters) + (ad - 1)
    ELSE IF pc = "sleep" THEN kw * Len(Adapters)
    ELSE IF pc = "scholarly" THEN Len(Adapters) * Len(G6_KEYWORDS)
    ELSE Len(Schedule)

\* C10: whatever the upstream answers, no adapter call raises to
\* weekly_search and each returns a sequence; every call of the schedule
\* is made, whichever of the calls before it failed.
C10_AdaptersNeverRaise ==
    /\ raised = ""
    /\ pc # "job_raised"
    /\ Len(call_log) = CallsDue
    /\ \A n \in 1..Len(call_log) :
          /\ call_log[n].adapter = Schedule[n].adapter
          /\ call_log[n].keyword = Schedule[n].keyword

\* the first two calls failed, the third answered, the rest of the first
\* round and a call of the second failed too, and all calls were made
C10_Witness ==
    /\ pc = "dedup"
    /\ Len(call_log) = Len(Schedule)
    /\ call_log[1].outcome = "failed"
    /\ call_log[2].outcome = "failed"
    /\ call_log[3].outcome = "ok"
    /\ call_log[4].outcome = "failed"
    /\ call_log[5].outcome = "failed"
    /\ call_log[6].outcome = "failed"
    /\ call_log[7].outcome = "ok"
    /\ call_log[Len(Schedule)].outcome = "ok"
    /\ Len(all_articles) = 3


\* the adapters under @retry
RetryWrapped == {"semantic", "core", "sciencedirect"}

\* C11: a call of a retry-wrapped adapter (semantic, core, sciencedirect)
\* that 429 ended has returned the empty list only after its cap of attempts
\* (3, 5, 5) was used up; a call that any other failure ended made one attempt.
C11_RateLimitRetriedToCap ==
    /\ last_call.adapter \in RetryWrapped /\ last_call.rate_limited
            => last_call.attempts = AttemptCap(last_call.adapter)
    /\ last_call.adapter # "none" /\ ~last_call.rate_limited
            => last_call.attempts = 1

\* C12: unpaywall_enrich returns the candidates it was given, in the same
\* order and number, and raises nothing; it changes no field but link, and a
\* link only of a candidate whose link matched the arXiv pattern and whose
\* single lookup came back 200 with a PDF URL, which becomes the link; after
\* any other lookup outcome the candidate keeps its link.
C12_EnrichmentKeepsCandidates ==
    /\ [](pc = "enrich" => enriched = SubSeq(recent, 1, ei - 1) /\ raised = "")
    /\ [][pc = "enrich" =>
            /\ pc' \in {"enrich", "store"}
            /\ raised' = ""
            /\ pc' = "store" => returned' = <<recent>>
            /\ Len(all_articles') = Len(all_articles)
            /\ lookups' \in {lookups, lookups + 1}
            /\ lookups' # lookups /\ last_lookup'.outcome # "oa"
                    => all_articles' = all_articles
            /\ \A r \in Refs :
                  /\ [all_articles'[r] EXCEPT !.link = all_articles[r].link]
                         = all_articles[r]
                  /\ all_articles'[r].link # all_articles[r].link =>
                        /\ r = recent[ei]
                        /\ ContainsArxiv(all_articles[r].link)
                        /\ lookups' = lookups + 1
                        /\ last_lookup' = [ref |-> r, outcome |-> "oa"]
                        /\ all_articles'[r].link = OaUrl(all_articles[r].link)
       ]_vars

\* two candidates returned after two lookups: the first one's link replaced,
\* the second one's request failed and its arXiv link kept
C12_Witness ==
    /\ returned # <<>>
    /\ Len(returned[1]) = 2
    /\ lookups = 2
    /\ last_lookup.outcome \in {"exception", "non200", "no_oa"}
    /\ all_articles[returned[1][1]].link = "https://oa.example/1.pdf"
    /\ ContainsArxiv(all_articles[returned[1][2]].link)

\* what the adapter of the call returned, and the records it was answered
Emitted == call_result[1].value
Answered == call_arg.resp.items

\* C13: every candidate an adapter emits has a non-empty title; a record
\* whose title is missing, null or empty is dropped.
C13_TitlesNonEmpty ==
    pc = "normalised" =>
        \A k \in 1..Len(Emitted) :
            Emitted[k].title # <<>> /\ Emitted[k].title # PyNone

\* the authors field the names of a record come to
AuthorsOf(item) ==
    LET joined == Join(item.authors)
    IN  IF Len(joined) > 1000 THEN SubSeq(joined, 1, 950) \o Marker ELSE joined

\* the emitted authors come from the record as told, a cut one being `total`
\* characters long
FromRecord(authors, item, total) ==
    /\ authors = AuthorsOf(item)
    /\ Len(Join(item.authors)) > 1000 => Len(authors) = total

AuthorsCut(total) ==
    pc = "normalised" =>
        /\ \A k \in 1..Len(Emitted) :
              /\ Len(Emitted[k].authors) <= 1000
              /\ \E i \in 1..Len(Answered) :
                    FromRecord(Emitted[k].authors, Answered[i], total)
        /\ Len(Emitted) = Len(Answered) =>
              \A k \in 1..Len(Emitted) :
                    FromRecord(Emitted[k].authors, Answered[k], total)

\* C14 as stated: in every adapter an authors string longer than 1000
\* characters is replaced by its first 950 characters followed by
\* ' ... et al.', 962 characters in all; a shorter one is passed unchanged;
\* no emitted authors field is longer than 1000 characters.
C14_TruncatedTo962 == AuthorsCut(962)

\* C14: in every adapter an authors string longer than 1000 characters is
\* replaced by its first 950 characters followed by ' ... et al.', 961
\* characters in all; one of 1000 characters or fewer is passed unchanged; no
\* emitted authors field is longer than 1000 characters.
C14_TruncatedTo961 == AuthorsCut(961)

\* a call that emitted an authors string cut to 961 characters and one of
\* 1000 characters as it came
C14_Witness ==
    /\ pc = "normalised"
    /\ Len(Emitted) = 2
    /\ Len(Emitted[1].authors) = 961
    /\ Len(Join(Answered[1].authors)) = 1001
    /\ Len(Emitted[2].authors) = 1000

\* the unique list holds exactly A, B and C
E2EUnique ==
    /\ Len(unique) = 3
    /\ {all_articles[r].link : r \in UniqueRefs} = {"linkA", "linkB", "linkC"}

\* the score of the unique candidate with that link
E2EScore(link) ==
    ScoreOf(CHOOSE r \in UniqueRefs : all_articles[r].link = link)

\* 'alpha-like' stands in the title of the run's C
E2ETitled == \E r \in Refs : all_articles[r].title = AlphaLike

ReturnedLinks == {all_articles[returned[1][k]].link : k \in 1..Len(returned[1])}

\* the position of the first candidate with that link in the aggregation
FirstAt(link) == CHOOSE i \in Refs :
    /\ all_articles[i].link = link
    /\ \A j \in 1..(i - 1) : all_articles[j].link # link

\* C15 as stated: in the scenario, for every order of the source calls, the
\* unique set is {A, B, C}, B scores 4, A 0 and C 1 or 0, and the selected
\* output is {B, C} or {B, A}: it always holds the top-scored B.
C15_OutputHoldsTopScored ==
    /\ pc # "dedup" =>
          /\ E2EUnique
          /\ E2EScore("linkB") = 4 /\ E2EScore("linkA") = 0
          /\ E2EScore("linkC") \in {0, 1}
    /\ returned # <<>> =>
          /\ "linkB" \in ReturnedLinks
          /\ ReturnedLinks \in {{"linkB", "linkC"}, {"linkB", "linkA"}}

\* C15: in the scenario, for every order of the source calls, the unique set
\* is {A, B, C}, B scores 4, A 0 and C 1 when 'alpha-like' stands in its
\* abstract (4 when it stands in its title), and the selected output is the
\* first Quota unique candidates in aggregation order: with quota 2 it is
\* {A, B} when B's source is called before C's and {A, C} otherwise.
C15_OutputInAggregationOrder ==
    /\ pc # "dedup" =>
          /\ E2EUnique
          /\ E2EScore("linkB") = 4 /\ E2EScore("linkA") = 0
          /\ E2EScore("linkC") = IF E2ETitled THEN 4 ELSE 1
    /\ returned # <<>> =>
          /\ returned[1] = Take(unique, Quota)
          /\ Quota = 2 =>
                ReturnedLinks = IF FirstAt("linkB") < FirstAt("linkC")
                                THEN {"linkA", "linkB"} ELSE {"linkA", "linkC"}

\* a run that returned A and C, C scoring 1 and the top-scored B left out
C15_Witness ==
    /\ returned # <<>>
    /\ E2EUnique
    /\ ReturnedLinks = {"linkA", "linkC"}
    /\ E2EScore("linkB") = 4
    /\ E2EScore("linkC") = 1

\* the candidates the unique list refers to
UniqueList == [k \in 1..Len(unique) |-> all_articles[unique[k]]]
KeysOf(articles) == {Key(articles[k]) : k \in 1..Len(articles)}
Orderings == {o \in [Refs -> Refs] : \A i, j \in Refs : o[i] = o[j] => i = j}

\* C16: the deduplication pass applied to its own output returns it
\* unchanged, and applied to any reordering of its input (the same multiset
\* of (title, link) pairs) it yields the same set of keys.
C16_DedupIdempotent ==
    pc = "backup" =>
        /\ UniqueList = DedupPass(all_articles)
        /\ DedupPass(UniqueList) = UniqueList
        /\ \A o \in Orderings :
              KeysOf(DedupPass([k \in Refs |-> all_articles[o[k]]]))
                 = KeysOf(UniqueList)

\* a pass over three candidates whose third repeats the key of the first
C16_Witness ==
    /\ pc = "backup"
    /\ Len(all_articles) = 3
    /\ Len(unique) = 2
    /\ Key(all_articles[3]) = Key(all_articles[1])
    /\ Key(all_articles[2]) # Key(all_articles[1])

Scored(r) == all_articles[r].relevance_score # <<>>

\* C17: relevance_score is written once for each surviving candidate, at the
\* step that appends it to the unique list, and never for a discarded
\* duplicate; no later step (backup, partition, sort, enrichment, storing)
\* changes it, so each returned candidate carries the score its record in
\* the backup file holds.
C17_ScoreWrittenOnce ==
    /\ [][\A r \in Refs :
            all_articles'[r].relevance_score # all_articles[r].relevance_score =>
                /\ pc = "dedup"
                /\ r = di
                /\ ~Scored(r)
                /\ unique' = Append(unique, r)
         ]_vars
    /\ [](pc # "dedup" => \A r \in Refs : Scored(r) <=> r \in UniqueRefs)
    /\ [](returned # <<>> =>
            \A j \in 1..Len(returned[1]) :
                \E k \in 1..Len(unique) :
                    /\ unique[k] = returned[1][j]
                    /\ backup.content[k].relevance_score = ScoreOf(unique[k]))

\* a run that discarded a duplicate unscored and returned a candidate with a
\* score above 0 after its link was replaced
C17_Witness ==
    /\ returned # <<>>
    /\ \E r \in Refs : ~Scored(r)
    /\ \E j \in 1..Len(returned[1]) :
          /\ ScoreOf(returned[1][j]) > 0
          /\ all_articles[returned[1][j]].link = "https://oa.example/1.pdf"

\* C18: the name of the backup file is determined by the ISO year and ISO
\* week of the run date: two runs whose dates lie in different ISO
\* (year, week) pairs, around a turn of the year too, write different files.
C18_IsoWeekNamesFile ==
    \A w1, w2 \in writes :
        <<IsoYear(w1.day), IsoWeek(w1.day)>> # <<IsoYear(w2.day), IsoWeek(w2.day)>>
            => w1.path # w2.path

\* C19: whatever the text and whatever the model replies, the object
\* generate_summary returns has a summary of 200 to 250 characters and 3 to
\* 5 key points.
C19_SummaryWithinBounds ==
    pc = "summarised" =>
        /\ Len(call_result[1].summary) \in 200..250
        /\ Len(call_result[1].key_points) \in 3..5

\* the positions of the call log with that adapter and keyword
CallsOf(adapter, keyword) ==
    {n \in 1..Len(call_log) :
        call_log[n].adapter = adapter /\ call_log[n].keyword = keyword}

\* C20: in one run each of the five paced adapters is called exactly once
\* per keyword, the keywords in vocabulary order, and scholarly_search
\* exactly once, with the first keyword, after all the rounds; every call
\* appends its output to the aggregated list, which is thus the
\* concatenation of the outputs in call order, duplicates kept.
C20_CallSchedule ==
    /\ [](attempt = 1)
    /\ [](pc = "dedup" =>
            /\ \A i \in 1..Len(Adapters), k \in 1..Len(G6_KEYWORDS) :
                  Cardinality(CallsOf(Adapters[i], k)) = 1
            /\ \A k \in 2..Len(G6_KEYWORDS) : CallsOf("scholarly", k) = {}
            /\ CallsOf("scholarly", 1) = {Len(call_log)}
            /\ \A m, n \in 1..(Len(call_log) - 1) :
                  m < n => call_log[m].keyword <= call_log[n].keyword)
    /\ [][call_log' # call_log =>
            /\ Len(call_log') = Len(call_log) + 1
            /\ SubSeq(call_log', 1, Len(call_log)) = call_log
            /\ last_call'.adapter = call_log'[Len(call_log')].adapter
            /\ all_articles' = all_articles \o last_call'.output
         ]_vars
    /\ [][all_articles' # all_articles => call_log' # call_log]_vars

\* a run whose aggregated list holds the same candidate twice, from two
\* adapters, and a candidate from scholarly_search at its end
C20_Witness ==
    /\ pc = "dedup"
    /\ Len(all_articles) = 3
    /\ all_articles[1] = all_articles[2]
    /\ last_call.adapter = "scholarly"
    /\ last_call.output = <<all_articles[3]>>

\* the delay is taken with all the calls of round kw returned, and a call
\* of a round is followed by the next call of the round or, after the last
\* one, by the delay
DelayAfterRound ==
    /\ [](pc = "sleep" =>
            ad = Len(Adapters) /\ Len(call_log) = kw * Len(Adapters))
    /\ [][pc = "aggregate" /\ call_log' # call_log =>
            /\ kw' = kw
            /\ pc' = IF ad < Len(Adapters) THEN "aggregate" ELSE "sleep"
            /\ ad < Len(Adapters) => ad' = ad + 1
         ]_vars

\* C21 as stated: the delay is applied only after all adapter calls of a
\* round have returned and before the first adapter call of the next round,
\* once between two consecutive rounds, never between two calls of a round.
C21_DelayOnlyBeforeNextRound ==
    /\ DelayAfterRound
    /\ [][pc = "sleep" =>
            /\ call_log' = call_log
            /\ kw' = kw + 1 /\ kw' <= Len(G6_KEYWORDS)
            /\ pc' = "aggregate" /\ ad' = 1
         ]_vars

\* C21: the delay is applied only after all adapter calls of a round have
\* returned, once after every round: between two consecutive rounds, before
\* the first call of the next one, and after the last round, before the call
\* of scholarly_search; never between two calls of a round.
C21_DelayAfterEveryRound ==
    /\ DelayAfterRound
    /\ [][pc = "sleep" =>
            /\ call_log' = call_log
            /\ kw' = kw + 1
            /\ ad' = 1
            /\ pc' = IF kw < Len(G6_KEYWORDS) THEN "aggregate" ELSE "scholarly"
         ]_vars

\* the delay after the last round was taken and scholarly_search is next
C21_Witness ==
    /\ pc = "scholarly"
    /\ kw = Len(G6_KEYWORDS) + 1
    /\ Len(call_log) = Len(Adapters) * Len(G6_KEYWORDS)

\* the forms of date the adapter parses
KnownForms(adapter) ==
    CASE adapter = "semantic" -> {"date"}
      [] adapter = "core" -> {"full", "date"}
      [] adapter = "sciencedirect" -> {"date"}
      [] adapter = "crossref" -> {"full", "date", "year"}
      [] adapter = "scholarly" -> {"year"}
      [] OTHER -> {"full", "date", "year"}

\* a record with a title and a link, which only its date can fail
SoundButDate(item) ==
    /\ item.title.key /\ item.title.val # <<>> /\ item.title.val[1] # <<>>
    /\ item.link # <<>>

\* C22: a record whose date matches none of the formats the adapter knows
\* is emitted with publish_date null, and the other records of the answer
\* are returned with it: such a date is no error and costs no record.
C22_UnknownDateGivesNull ==
    pc = "normalised" /\ call_arg.adapter # "arxiv"
        /\ (\A i \in 1..Len(Answered) : SoundButDate(Answered[i])) =>
            /\ call_result[1].kind = "return"
            /\ Len(Emitted) = Len(Answered)
            /\ \A k \in 1..Len(Emitted) :
                  Answered[k].date.form \notin
                      KnownForms(call_arg.adapter) \cup {"none"}
                        => Emitted[k].publish_date = <<>>

\* C23: at every point of a run, a failure during the backup write
\* included, the backup file of the week is absent or a complete artifact;
\* a partially written file is never there to be seen.
C23_BackupNeverPartial ==
    /\ backup.state \in {"absent", "complete"}
    /\ backup.state = "complete" => Len(backup.content) = Len(unique)

\* no two of the rows hold the same link
DistinctLinks(rows) == \A r1, r2 \in rows : r1.link = r2.link => r1 = r2

\* C24: the duplicate check skips a candidate whose link is that of a
\* stored article or of a candidate accepted earlier in the run, so no run
\* adds two rows with one link, the commit never fails on the unique
\* constraint of link, and the stored articles have distinct links.
C24_NoDuplicateLinkAccepted ==
    /\ raised # "IntegrityError"
    /\ \A i, j \in 1..Len(pending) : pending[i].link = pending[j].link => i = j
    /\ pc = "store" =>
          \A i \in 1..Len(pending), row \in db : pending[i].link # row.link
    /\ DistinctLinks(db)

(***************************************************************************)
(* Two executions of run_weekly_job: the one APScheduler's background      *)
(* thread starts on the cron trigger and the one the request thread of     *)
(* POST /api/trigger-search starts.  Each thread has its own db.session;   *)
(* the table articles is shared.  The code takes no lock.                  *)
(***************************************************************************)

\* what weekly_search can hand to a run: candidates with distinct keys
RunPool == {Cand(<<"x">>, "Au1", <<19999>>, "doi2", <<>>),
            Cand(<<"y">>, "", <<19999>>, "doi3", <<>>)}
RunLists == {l \in SeqsUpTo(RunPool, Quota) :
                \A i, j \in 1..Len(l) : l[i] = l[j] => i = j}

InitRuns ==
    /\ pc = "serve"
    /\ G6_KEYWORDS = PipelineKeywords
    /\ ELSEVIER_API_KEY = "key"
    /\ now \in RunDays
    /\ di = 1
    /\ seen = {}
    /\ unique = <<>>
    /\ backup = [state |-> "absent", content |-> <<>>]
    /\ backup_path = <<>>
    /\ backup_outcome = "none"
    /\ recent = <<>>
    /\ older = <<>>
    /\ ei = 1
    /\ enriched = <<>>
    /\ lookups = 0
    /\ last_lookup = [ref |-> 0, outcome |-> "none"]
    /\ returned = <<>>
    /\ raised = ""
    /\ pending = <<>>
    /\ si = 1
    /\ saved_count = 0
    /\ all_articles = <<>>
    /\ kw = 1
    /\ ad = 1
    /\ attempt = 1
    /\ call_log = <<>>
    /\ last_call = [adapter |-> "none", rate_limited |-> FALSE, attempts |-> 0,
                    output |-> <<>>]
    /\ call_arg = <<>>
    /\ call_result = <<>>
    /\ writes = {}
    /\ runs = NoRuns
    /\ db = {}

RunsFrame == UNCHANGED <<pc, config, call_arg, call_result, writes, all_articles,
                         aggVars, searchVars, raised, pending, si, saved_count>>

\* the cron trigger fires: the scheduler's thread calls run_weekly_job; a
\* job of APScheduler has one instance at a time
CronFire ==
    /\ pc = "serve"
    /\ runs["cron"].pc = "idle"
    /\ runs' = [runs EXCEPT !["cron"] = [IdleRun EXCEPT !.pc = "search"]]
    /\ UNCHANGED db
    /\ RunsFrame

\* POST /api/trigger-search: the request's thread calls run_weekly_job
trigger_search ==
    /\ pc = "serve"
    /\ runs["post"].pc = "idle"
    /\ runs' = [runs EXCEPT !["post"] = [IdleRun EXCEPT !.pc = "search"]]
    /\ UNCHANGED db
    /\ RunsFrame

\* articles = weekly_search()
RunSearch(r) ==
    /\ runs[r].pc = "search"
    /\ \E articles \in RunLists :
          runs' = [runs EXCEPT ![r].pc = "store", ![r].articles = articles]
    /\ UNCHANGED db
    /\ RunsFrame

\* one iteration of `for article in articles` of the run of thread r
RunStore(r) ==
    /\ runs[r].pc = "store"
    /\ runs[r].si <= Len(runs[r].articles)
    /\ LET article == runs[r].articles[runs[r].si]
       IN  IF \E row \in db : row.link = article.link
           THEN runs' = [runs EXCEPT ![r].si = @ + 1]
           ELSE runs' = [runs EXCEPT ![r].si = @ + 1,
                                     ![r].pending = Append(@, Row(article))]
    /\ UNCHANGED db
    /\ RunsFrame

\* db.session.commit() of the run of thread r
RunCommit(r) ==
    /\ runs[r].pc = "store"
    /\ runs[r].si > Len(runs[r].articles)
    /\ LET mine == runs[r].pending
       IN  IF \E i \in 1..Len(mine), row \in db : mine[i].link = row.link
           THEN /\ runs' = [runs EXCEPT ![r].pc = "idle",
                                        ![r].outcome = "IntegrityError"]
                /\ UNCHANGED db
           ELSE /\ db' = db \cup {mine[i] : i \in 1..Len(mine)}
                /\ runs' = [runs EXCEPT ![r].pc = "export"]
    /\ RunsFrame

\* the export of the week's rows, and the return of run_weekly_job
RunExport(r) ==
    /\ runs[r].pc = "export"
    /\ runs' = [runs EXCEPT ![r].pc = "idle", ![r].outcome = "ok"]
    /\ UNCHANGED db
    /\ RunsFrame

NextRuns ==
    \/ CronFire
    \/ trigger_search
    \/ \E r \in Triggers : RunSearch(r)
    \/ \E r \in Triggers : RunStore(r)
    \/ \E r \in Triggers : RunCommit(r)
    \/ \E r \in Triggers : RunExport(r)

SpecRuns == InitRuns /\ [][NextRuns]_vars

\* the runs in progress
Active == {r \in Triggers : runs[r].pc # "idle"}

\* C25: two executions of the weekly job never overlap: the run of the
\* cron trigger and the run of POST /api/trigger-search are serialised, one
\* completing (search, backup, store, export) before the other begins, so
\* no commit of a run meets a row the other run stored since its check.
C25_RunsNeverOverlap ==
    /\ Cardinality(Active) <= 1
    /\ \A r \in Triggers : runs[r].outcome # "IntegrityError"

\* C26: generate_summary never raises to run_weekly_job: whenever the call
\* to the summarization service fails or its reply cannot be parsed it
\* returns the fallback object, so a failing summarizer never aborts the
\* weekly job.
C26_SummaryNeverRaises ==
    /\ raised = ""
    /\ pc # "job_raised"
    /\ pc = "summarised" /\ call_arg.reply.kind \in {"chat_error", "no_json", "bad_json"}
          => call_result[1] = ErrorSummary
====
